---- MODULE Spec2Model ----
(***************************************************************************)
(* The four notebooks of the repository as linear scripts run by a Jupyter *)
(* kernel: a notebook is its code cells in document order, a cell is its   *)
(* statements, a statement is the library calls it makes followed by the   *)
(* binding of the names it assigns.  Cells and statements are identified   *)
(* by the line of the notebook file they start on.                         *)
(***************************************************************************)
EXTENDS Integers, Sequences, FiniteSets, TLC

(***************************************************************************)
(* Statements and calls.                                                   *)
(*   kind : what the call does                                             *)
(*     import, magic, pass (comment only), const (literal), show (bare     *)
(*     name shown as the cell's value), query (remote archive query),      *)
(*     select (indexing or filtering a query result), download, access     *)
(*     (method or attribute of an object), plot, setitem (in-place         *)
(*     assignment through an index), open, read (of a file), close         *)
(*   fn   : the function, method or attribute called                       *)
(*   reads: the names the call looks up                                    *)
(*   prod : the data product the call names in its arguments, "" if none   *)
(***************************************************************************)
O(kind, fn, reads, prod) ==
    [kind |-> kind, fn |-> fn, reads |-> reads, prod |-> prod]

S(cell, line, binds, ops) ==
    [cell |-> cell, line |-> line, binds |-> binds, ops |-> ops]

Imp(cell, line, name) == S(cell, line, {name}, <<O("import", "import", {}, "")>>)

Magic(cell, line) == S(cell, line, {}, <<O("magic", "matplotlib inline", {}, "")>>)

Show(cell, line, name) == S(cell, line, {}, <<O("show", "repr", {name}, "")>>)

Acc(cell, line, binds, fn, reads) ==
    S(cell, line, binds, <<O("access", fn, reads, "")>>)

Plot(cell, line, fn, reads) == S(cell, line, {}, <<O("plot", fn, reads, "")>>)

(* the file opened by a plain assignment, hdulist = fits.open(filename),   *)
(* with no with block around the access                                    *)
OpenNoWith(cell, line, target, fn) ==
    << S(cell, line, {"hdulist"}, <<O("open", "fits.open", {"fits", "filename"}, "")>>),
       S(cell, line + 1, {target}, <<O("access", fn, {"hdulist"}, "")>>) >>

(* with fits.open(filename) as hdulist: <target> = hdulist[<n>].<attr>     *)
(* the with statement, its one-line body, and the exit of the block        *)
WithOpen(cell, line, target, fn) ==
    << S(cell, line, {"hdulist"}, <<O("open", "fits.open", {"fits", "filename"}, "")>>),
       S(cell, line + 1, {target}, <<O("access", fn, {"hdulist"}, "")>>),
       S(cell, line + 2, {}, <<O("close", "hdulist.__exit__", {"hdulist"}, "")>>) >>

(* plt.title(...); plt.xlabel(...); plt.ylabel(...) on three lines         *)
Labels(cell, line) ==
    << Plot(cell, line, "plt.title", {"plt"}),
       Plot(cell, line + 1, "plt.xlabel", {"plt"}),
       Plot(cell, line + 2, "plt.ylabel", {"plt"}) >>

(* x = lk.search_targetpixelfile(<target>, ...).download(...)              *)
SearchDownload(cell, line, target, prod) ==
    S(cell, line, {target},
      << O("query", "lk.search_targetpixelfile", {"lk"}, prod),
         O("download", "download", {}, "") >>)

TargFile == "kplr008957091-2012277125453_lpd-targ.fits.gz"

(***************************************************************************)
(* Plotting Images from Kepler Target Pixel Files (astroquery + astropy)   *)
(***************************************************************************)
TpfImg ==
    << Magic(115, 115),
       Imp(115, 116, "np"),
       Imp(115, 117, "fits"),
       Imp(115, 118, "Table"),
       Imp(115, 119, "plt"),
       Imp(163, 163, "Mast"),
       Imp(163, 164, "Observations"),
       S(184, 184, {"keplerObs"},
         <<O("query", "Observations.query_criteria", {"Observations"}, "")>>),
       S(184, 185, {"keplerProds"},
         << O("select", "getitem", {"keplerObs"}, ""),
            O("query", "Observations.get_product_list", {"Observations"}, "") >>),
       S(184, 186, {"yourProd"},
         <<O("select", "Observations.filter_products",
             {"Observations", "keplerProds"}, TargFile)>>),
       Show(184, 188, "yourProd"),
       S(208, 208, {},
         <<O("download", "Observations.download_products",
             {"Observations", "yourProd"}, "")>>),
       S(252, 252, {"filename"}, <<O("const", "str", {}, TargFile)>>),
       S(252, 253, {}, <<O("read", "fits.info", {"fits", "filename"}, "")>>) >>
    \o WithOpen(291, 291, "header1", "hdulist[1].header")
    \o << Acc(291, 294, {}, "print", {"header1"}) >>
    \o WithOpen(310, 310, "binaryext", "hdulist[1].data")
    \o << Acc(310, 313, {"binarytab"}, "Table", {"Table", "binaryext"}),
          Acc(310, 314, {}, "getitem", {"binarytab"}),
          Acc(330, 330, {}, "print", {"binarytab"}),
          Acc(362, 362, {}, "getitem", {"binarytab"}) >>
    \o Labels(379, 379)
    \o << Plot(379, 383, "plt.imshow", {"plt", "binarytab"}),
          Plot(379, 384, "plt.colorbar", {"plt"}),
          Plot(379, 385, "plt.clim", {"plt"}),
          Acc(403, 403, {}, "getitem", {"binarytab"}) >>
    \o Labels(412, 412)
    \o << Plot(412, 416, "plt.imshow", {"plt", "binarytab"}),
          Plot(412, 417, "plt.colorbar", {"plt"}),
          Plot(412, 418, "plt.clim", {"plt"}),
          Acc(434, 434, {"arr"}, "np.subtract", {"np", "binarytab"}),
          Acc(434, 435, {}, "print", {"arr"}) >>
    \o Labels(451, 451)
    \o << Plot(451, 455, "plt.imshow", {"plt", "arr"}),
          Plot(451, 456, "plt.colorbar", {"plt"}),
          Plot(451, 457, "plt.clim", {"plt"}) >>
    \o WithOpen(491, 491, "imgdata", "hdulist[2].data")
    \o << Acc(491, 494, {}, "print", {"imgdata"}),
          Plot(510, 510, "plt.figure", {"plt"}),
          Plot(510, 511, "plt.title", {"plt"}),
          Plot(510, 512, "plt.xlabel", {"plt"}),
          Plot(510, 513, "plt.ylabel", {"plt"}),
          Plot(510, 514, "plt.imshow", {"plt", "imgdata"}) >>
(***************************************************************************)
(* Identifying Transiting Planet Signals in a Kepler Light Curve           *)
(***************************************************************************)
Transit ==
    << Imp(59, 59, "lk"),
       Magic(59, 60),
       S(96, 97, {"search_result"},
         <<O("query", "lk.search_lightcurve", {"lk"}, "Kepler-69")>>),
       S(96, 99, {"lc_collection"},
         <<O("download", "download_all", {"search_result"}, "")>>),
       Plot(96, 100, "plot", {"lc_collection"}),
       Show(118, 118, "search_result"),
       S(127, 128, {"lc"},
         << O("access", "stitch", {"lc_collection"}, ""),
            O("access", "flatten", {}, ""),
            O("access", "remove_outliers", {}, "") >>),
       Plot(127, 129, "plot", {"lc"}),
       Imp(177, 177, "np"),
       Acc(177, 179, {"period"}, "np.linspace", {"np"}),
       Acc(177, 181, {"bls"}, "to_periodogram", {"lc", "period"}),
       Plot(177, 182, "plot", {"bls"}),
       Acc(202, 202, {"planet_b_period"}, "period_at_max_power", {"bls"}),
       Acc(202, 203, {"planet_b_t0"}, "transit_time_at_max_power", {"bls"}),
       Acc(202, 204, {"planet_b_dur"}, "duration_at_max_power", {"bls"}),
       Show(202, 207, "planet_b_period"),
       S(225, 225, {"ax"},
         << O("access", "fold", {"lc", "planet_b_period", "planet_b_t0"}, ""),
            O("plot", "scatter", {}, "") >>),
       Plot(225, 226, "set_xlim", {"ax"}),
       Acc(264, 265, {"planet_b_mask"}, "get_transit_mask",
           {"bls", "planet_b_period", "planet_b_t0", "planet_b_dur"}),
       S(285, 285, {"masked_lc"},
         << O("access", "invert", {"planet_b_mask"}, ""),
            O("access", "getitem", {"lc"}, "") >>),
       S(285, 286, {"ax"}, <<O("plot", "scatter", {"masked_lc"}, "")>>),
       S(285, 287, {},
         << O("access", "getitem", {"lc", "planet_b_mask"}, ""),
            O("plot", "scatter", {"ax"}, "") >>),
       Acc(305, 306, {"planet_b_model"}, "get_transit_model",
           {"bls", "planet_b_period", "planet_b_t0", "planet_b_dur"}),
       S(326, 326, {"ax"},
         << O("access", "fold", {"lc", "planet_b_period", "planet_b_t0"}, ""),
            O("plot", "scatter", {}, "") >>),
       S(326, 327, {},
         << O("access", "fold", {"planet_b_model", "planet_b_period", "planet_b_t0"}, ""),
            O("plot", "plot", {"ax"}, "") >>),
       Plot(326, 328, "set_xlim", {"ax"}),
       Acc(355, 355, {"period"}, "np.linspace", {"np"}),
       Acc(355, 356, {"bls"}, "to_periodogram", {"masked_lc", "period"}),
       Plot(355, 357, "plot", {"bls"}),
       Acc(375, 375, {"planet_c_period"}, "period_at_max_power", {"bls"}),
       Acc(375, 376, {"planet_c_t0"}, "transit_time_at_max_power", {"bls"}),
       Acc(375, 377, {"planet_c_dur"}, "duration_at_max_power", {"bls"}),
       Show(375, 380, "planet_c_period"),
       S(398, 398, {"ax"},
         << O("access", "fold", {"masked_lc", "planet_c_period", "planet_c_t0"}, ""),
            O("plot", "scatter", {}, "") >>),
       S(398, 399, {},
         << O("access", "fold", {"masked_lc", "planet_c_period", "planet_c_t0"}, ""),
            O("access", "bin", {}, ""),
            O("plot", "plot", {"ax"}, "") >>),
       Plot(398, 401, "set_xlim", {"ax"}),
       Acc(421, 421, {"planet_c_model"}, "get_transit_model",
           {"bls", "planet_c_period", "planet_c_t0", "planet_c_dur"}),
       S(432, 432, {"ax"}, <<O("plot", "scatter", {"lc"}, "")>>),
       Plot(432, 433, "plot", {"planet_b_model", "ax"}),
       Plot(432, 434, "plot", {"planet_c_model", "ax"}),
       Acc(496, 496, {}, "lk.show_citation_instructions", {"lk"}) >>

(***************************************************************************)
(* Plotting Kepler Target Pixel File Products with Lightkurve              *)
(***************************************************************************)
Plotting ==
    << Imp(77, 77, "lk"),
       Imp(77, 78, "plt"),
       Magic(77, 79),
       S(110, 110, {"search_result"},
         <<O("query", "lk.search_targetpixelfile", {"lk"}, "Kepler-8 Q4")>>),
       Show(110, 111, "search_result"),
       S(120, 120, {"tpf"}, <<O("download", "download", {"search_result"}, "")>>),
       Acc(139, 139, {"first_cadence"}, "getitem", {"tpf"}),
       Show(139, 140, "first_cadence"),
       Acc(176, 176, {}, "flux.value", {"first_cadence"}),
       Plot(195, 195, "plot", {"first_cadence"}),
       S(234, 234, {"fig", "axes"}, <<O("plot", "plt.subplots", {"plt"}, "")>>),
       Plot(234, 235, "plot", {"first_cadence", "axes"}),
       Plot(234, 236, "plot", {"first_cadence", "axes"}),
       Plot(234, 237, "plot", {"first_cadence", "axes"}),
       Plot(234, 238, "plot", {"first_cadence", "axes"}),
       Plot(267, 267, "plot", {"first_cadence"}),
       Acc(316, 316, {}, "pipeline_mask", {"first_cadence"}),
       S(335, 335, {},
         << O("access", "pipeline_mask", {"first_cadence"}, ""),
            O("plot", "plot", {"first_cadence"}, "") >>),
       Acc(384, 384, {"lc"}, "to_lightcurve", {"tpf"}),
       Show(403, 403, "lc"),
       Plot(424, 424, "plot", {"lc"}),
       Acc(455, 455, {"bkg"}, "get_bkg_lightcurve", {"tpf"}),
       Plot(455, 456, "plot", {"bkg"}),
       S(509, 509, {}, <<O("pass", "comment", {}, "")>>),
       S(518, 519, {"datalist"},
         <<O("query", "lk.search_targetpixelfile", {"lk"}, "Kepler-10")>>),
       Show(518, 520, "datalist"),
       S(529, 529, {"kep"},
         << O("select", "getitem", {"datalist"}, "Kepler-10 [6]"),
            O("download", "download", {}, "") >>),
       S(529, 530, {"tes"},
         << O("select", "getitem", {"datalist"}, "Kepler-10 [15]"),
            O("download", "download", {}, "") >>),
       S(539, 539, {"fig", "axes"}, <<O("plot", "plt.subplots", {"plt"}, "")>>),
       S(539, 540, {},
         << O("access", "pipeline_mask", {"kep"}, ""),
            O("plot", "plot", {"kep", "axes"}, "") >>),
       S(539, 541, {},
         << O("access", "pipeline_mask", {"tes"}, ""),
            O("plot", "plot", {"tes", "axes"}, "") >>),
       Plot(539, 542, "tight_layout", {"fig"}),
       Acc(551, 551, {"lc_kep"}, "to_lightcurve", {"kep"}),
       Acc(551, 552, {"lc_tes"}, "to_lightcurve", {"tes"}),
       S(561, 561, {"fig", "axes"}, <<O("plot", "plt.subplots", {"plt"}, "")>>),
       S(561, 562, {},
         << O("access", "flatten", {"lc_kep"}, ""),
            O("plot", "plot", {"axes"}, "") >>),
       S(561, 563, {},
         << O("access", "flatten", {"lc_tes"}, ""),
            O("plot", "plot", {"axes"}, "") >>) >>
(***************************************************************************)
(* Creating Your Own Light Curves using Custom Aperture Photometry         *)
(***************************************************************************)
ToLc(reads) ==
    << O("access", "to_lightcurve", reads, ""), O("access", "normalize", {}, "") >>

Custom ==
    << Imp(59, 59, "lk"),
       Imp(59, 60, "np"),
       Magic(59, 61),
       SearchDownload(112, 112, "tpf_example", "KIC 7461601 Q10"),
       Plot(121, 121, "plot", {"tpf_example"}),
       Plot(146, 146, "plot", {"tpf_example"}),
       SearchDownload(225, 225, "tpf", "KIC 2437317 Q10"),
       Plot(244, 244, "plot", {"tpf"}),
       Plot(265, 265, "plot", {"tpf"}),
       Acc(284, 284, {"lc"}, "to_lightcurve", {"tpf"}),
       Plot(284, 285, "plot", {"lc"}),
       S(324, 324, {"ax"}, ToLc({"tpf"}) \o <<O("plot", "plot", {}, "")>>),
       S(324, 325, {}, ToLc({"tpf"}) \o <<O("plot", "plot", {"ax"}, "")>>),
       S(324, 326, {}, ToLc({"tpf"}) \o <<O("plot", "plot", {"ax"}, "")>>),
       Acc(347, 347, {}, "create_threshold_mask", {"tpf"}),
       Acc(368, 368, {"custom_threshold_mask"}, "create_threshold_mask", {"tpf"}),
       Show(368, 369, "custom_threshold_mask"),
       S(388, 388, {"ax"}, ToLc({"tpf"}) \o <<O("plot", "plot", {}, "")>>),
       S(388, 389, {}, ToLc({"tpf"}) \o <<O("plot", "plot", {"ax"}, "")>>),
       S(388, 390, {}, ToLc({"tpf"}) \o <<O("plot", "plot", {"ax"}, "")>>),
       S(388, 391, {},
         ToLc({"tpf", "custom_threshold_mask"}) \o <<O("plot", "plot", {"ax"}, "")>>),
       SearchDownload(424, 424, "tpf_crowded", "KIC 2437901 Q10"),
       Plot(433, 433, "plot", {"tpf_crowded"}),
       Acc(452, 452, {}, "create_threshold_mask", {"tpf_crowded"}),
       S(471, 471, {},
         << O("access", "create_threshold_mask", {"tpf_crowded"}, ""),
            O("plot", "plot", {"tpf_crowded"}, "") >>),
       Acc(490, 490, {"custom_mask"}, "create_threshold_mask", {"tpf_crowded"}),
       Plot(490, 491, "plot", {"tpf_crowded", "custom_mask"}),
       Acc(510, 510, {"lc_background_star"}, "to_lightcurve",
           {"tpf_crowded", "custom_mask"}),
       Plot(510, 511, "plot", {"lc_background_star"}),
       S(544, 544, {"custom_mask"},
         << O("access", "getitem", {"tpf_crowded"}, ""),
            O("access", "shape", {}, ""),
            O("access", "np.zeros", {"np"}, "") >>),
       S(544, 545, {}, <<O("setitem", "setitem", {"custom_mask"}, "")>>),
       Show(544, 547, "custom_mask"),
       Plot(566, 566, "plot", {"tpf_crowded", "custom_mask"}),
       Plot(589, 589, "plot", {"tpf_crowded"}),
       Acc(598, 598, {"tpf_cut"}, "cutout", {"tpf_crowded"}),
       Plot(607, 607, "plot", {"tpf_cut"}),
       Acc(626, 626, {}, "create_threshold_mask", {"tpf_cut"}),
       S(645, 645, {"cut_mask"},
         << O("access", "getitem", {"tpf_cut"}, ""),
            O("access", "shape", {}, ""),
            O("access", "np.zeros", {"np"}, "") >>),
       S(645, 646, {}, <<O("setitem", "setitem", {"cut_mask"}, "")>>),
       S(645, 647, {}, <<O("setitem", "setitem", {"cut_mask"}, "")>>),
       Show(645, 649, "cut_mask"),
       Plot(658, 658, "plot", {"tpf_cut", "cut_mask"}),
       Acc(667, 667, {"lc_background_star_cut"}, "to_lightcurve",
           {"tpf_cut", "cut_mask"}),
       Plot(667, 668, "plot", {"lc_background_star_cut"}),
       Acc(725, 725, {}, "lk.show_citation_instructions", {"lk"}) >>
(***************************************************************************)
(* The kernel running one notebook top to bottom.                          *)
(***************************************************************************)
Notebooks == {"tpfimg", "transit", "plotting", "custom"}

(* the notebooks with numpy never imported in the transit notebook *)
StmtsNoNumpy(n) ==
    CASE n = "tpfimg" -> TpfImg
      [] n = "transit" -> SelectSeq(Transit, LAMBDA s : s.line # 177)
      [] n = "plotting" -> Plotting
      [] n = "custom" -> Custom

(* the notebooks with the cell that reads the file placed before the cell *)
(* that downloads it                                                       *)
StmtsInfoBeforeDownload(n) ==
    CASE n = "tpfimg" ->
             SelectSeq(TpfImg, LAMBDA s : s.cell < 208)
             \o SelectSeq(TpfImg, LAMBDA s : s.cell = 252)
             \o SelectSeq(TpfImg, LAMBDA s : s.cell = 208)
             \o SelectSeq(TpfImg, LAMBDA s : s.cell > 252)
      [] n = "transit" -> Transit
      [] n = "plotting" -> Plotting
      [] n = "custom" -> Custom

(* the transit notebook with the second periodogram computed from lc *)
StmtsSecondSearchOnLc(n) ==
    CASE n = "tpfimg" -> TpfImg
      [] n = "transit" ->
             [i \in DOMAIN Transit |->
                 IF Transit[i].line = 356
                 THEN Acc(355, 356, {"bls"}, "to_periodogram", {"lc", "period"})
                 ELSE Transit[i]]
      [] n = "plotting" -> Plotting
      [] n = "custom" -> Custom

(* the transit notebook with the cells that compute and plot the model of  *)
(* planet b placed after the cell of the second periodogram                *)
StmtsModelBAfterSecondSearch(n) ==
    CASE n = "tpfimg" -> TpfImg
      [] n = "transit" ->
             SelectSeq(Transit, LAMBDA s : s.cell < 305)
             \o SelectSeq(Transit, LAMBDA s : s.cell = 355)
             \o SelectSeq(Transit, LAMBDA s : s.cell \in {305, 326})
             \o SelectSeq(Transit, LAMBDA s : s.cell > 355)
      [] n = "plotting" -> Plotting
      [] n = "custom" -> Custom

(* the transit notebook with the masked light curve assigned to lc *)
StmtsLcRebound(n) ==
    CASE n = "tpfimg" -> TpfImg
      [] n = "transit" ->
             [i \in DOMAIN Transit |->
                 IF Transit[i].line = 285
                 THEN [Transit[i] EXCEPT !.binds = {"lc"}]
                 ELSE Transit[i]]
      [] n = "plotting" -> Plotting
      [] n = "custom" -> Custom

Stmts(n) ==
    CASE n = "tpfimg" -> TpfImg
      [] n = "transit" -> Transit
      [] n = "plotting" -> Plotting
      [] n = "custom" -> Custom

NamesOf(n) ==
    UNION { Stmts(n)[i].binds
            \cup UNION { Stmts(n)[i].ops[k].reads : k \in DOMAIN Stmts(n)[i].ops }
          : i \in DOMAIN Stmts(n) }

AllNames == UNION { NamesOf(n) : n \in Notebooks }

CellsOf(n) == { Stmts(n)[i].cell : i \in DOMAIN Stmts(n) }

Sites(n) ==
    UNION { { <<i, k>> : k \in DOMAIN Stmts(n)[i].ops } : i \in DOMAIN Stmts(n) }

(* calls into a library, which may raise *)
FailKinds ==
    {"import", "query", "select", "download", "access", "plot", "setitem",
     "open", "read"}

(* calls that read a file of the local working directory *)
FileKinds == {"open", "read"}

(* calls that use the data of a product *)
DataKinds == {"access", "plot", "setitem", "open", "read", "close"}

Unbound == [site |-> 0, cell |-> 0, prods |-> {}]

NoErr == [kind |-> "none", cell |-> 0, line |-> 0, stmt |-> 0]

(***************************************************************************)
(* The archive query of the Kepler TPF notebook.  The criteria are the     *)
(* target and the collection, so the result holds every observation of the *)
(* target: the long-cadence observation, whose directory the path in       *)
(* filename names, alone or with another observation before or after it.   *)
(***************************************************************************)
LcObs == "kplr008957091_lc_Q000000000011111111"

OtherObs == "another observation of kplr008957091"

ObsLists == { <<LcObs>>, <<LcObs, OtherObs>>, <<OtherObs, LcObs>> }

(* the data products of an observation *)
ProductsOf(obs) == IF obs = LcObs THEN {TargFile} ELSE {}

(***************************************************************************)
(* Cadence-level values of the transit notebook: a light curve is the      *)
(* sequence of its cadences, a mask a sequence of booleans over the        *)
(* cadences of the light curve it was computed from; a periodogram and     *)
(* what is read off it keep the cadences they were computed from.          *)
(***************************************************************************)
MaxCad == 3

Nil == [cad |-> <<>>, bits |-> <<>>]

(* the mask as it is, the ~ left out *)
NotInverted(b) == b

(* ~mask *)
Invert(b) == [i \in DOMAIN b |-> ~b[i]]

(* lc[mask]: the cadences at which the mask is True, in order *)
RECURSIVE Select(_, _)
Select(c, b) ==
    IF c = <<>> \/ b = <<>>
    THEN <<>>
    ELSE (IF Head(b) THEN <<Head(c)>> ELSE <<>>) \o Select(Tail(c), Tail(b))

(* the names whose value a method is called on or an index is applied to *)
ReceiverNames ==
    {"search_result", "lc_collection", "lc", "masked_lc", "bls",
     "planet_b_model", "planet_c_model"}

(***************************************************************************)
(* The book build (_config.yml)                                            *)
(***************************************************************************)
MaxBuilds == 2

ExecuteNotebooks == "auto"

(* whether a build executes a notebook, given whether all its code cells   *)
(* have stored outputs                                                     *)
Executes(mode, hasOutputs) ==
    \/ mode = "force"
    \/ mode = "auto" /\ ~hasOutputs

VARIABLES
    nb,        \* the notebook being run
    pc,        \* index in Stmts(nb) of the statement being executed
    ci,        \* index of the next call of that statement
    status,    \* "idle" between cells, "running", "error", "done"
    busy,      \* cells in progress
    started,   \* cells that have started
    finished,  \* cells that have run to their end
    env,       \* notebook-global bindings: name -> where it was bound
    acc,       \* products named by the value of the expression so far
    hist,      \* completed query, select and download calls
    files,     \* files in the local working directory
    handles,   \* files held open
    backend,   \* the kernel's plotting backend
    attempts,  \* how often each call was attempted
    carried,   \* state written in one cell and read in a later one
    err,       \* the exception that ended the run
    obsList,   \* the observations returned by the archive query
    uses,      \* which binding of a name each statement has looked up
    data,      \* cadence-level value of each name
    accd,      \* cadence-level value of the expression so far
    builds,    \* book builds started
    runs,      \* executions of the notebook by a build
    stored     \* whether the notebook file has stored outputs in every code cell

vars ==
    <<nb, pc, ci, status, busy, started, finished, env, acc, hist, files,
      handles, backend, attempts, carried, err, obsList, uses, data, accd,
      builds, runs, stored>>

book == <<builds, runs, stored>>

values == <<obsList, uses, data, accd>>

Prog == Stmts(nb)

CurStmt == Prog[pc]

CurOp == CurStmt.ops[ci]

(* a call of the cell in progress is about to be made *)
Pending == status = "running" /\ pc <= Len(Prog) /\ Prog[pc].cell \in busy

(* the products named by what the pending call operates on *)
OpIn == acc \cup UNION { env[n].prods : n \in CurOp.reads }

(* the products named by what the pending call returns: the product list  *)
(* is that of keplerObs[0], the filter keeps the products of the list with *)
(* the extension asked for                                                 *)
OpOut ==
    CASE CurOp.fn = "Observations.get_product_list" -> ProductsOf(Head(obsList))
      [] CurOp.fn = "Observations.filter_products" -> OpIn \cap {CurOp.prod}
      [] CurOp.prod # "" -> {CurOp.prod}
      [] OTHER -> OpIn

(* the object the pending call is made on *)
Recv == CurOp.reads \cap ReceiverNames

DIn == IF Recv = {} THEN accd ELSE data[CHOOSE n \in Recv : TRUE]

(* the mask the pending call is given *)
MaskIn ==
    IF "planet_b_mask" \in CurOp.reads THEN data["planet_b_mask"].bits ELSE accd.bits

(* the values the pending call can return: what the archive holds, which   *)
(* cadences are outliers and which are in transit is not known             *)
DOuts ==
    CASE CurOp.fn = "download_all" ->
             { [cad |-> [i \in 1..n |-> i], bits |-> <<>>] : n \in 1..MaxCad }
      [] CurOp.fn = "remove_outliers" ->
             { [cad |-> Select(DIn.cad, b), bits |-> <<>>]
               : b \in [DOMAIN DIn.cad -> BOOLEAN] }
      [] CurOp.fn = "get_transit_mask" ->
             { [cad |-> DIn.cad, bits |-> b] : b \in [DOMAIN DIn.cad -> BOOLEAN] }
      [] CurOp.fn = "invert" ->
             { [cad |-> data["planet_b_mask"].cad, bits |-> Invert(MaskIn)] }
      [] CurOp.fn = "getitem" /\ "lc" \in CurOp.reads ->
             { [cad |-> Select(DIn.cad, MaskIn), bits |-> <<>>] }
      [] OTHER -> {DIn}

NamesBound == \A n \in CurOp.reads : env[n].site # 0

(* a copy of the data file lies in the working directory from the start *)
OnDiskLeftOver == {TargFile} \cup { f.name : f \in files }

OnDisk == { f.name : f \in files }

Init ==
    /\ nb \in Notebooks
    /\ pc = 1
    /\ ci = 1
    /\ status = "unbuilt"
    /\ busy = {}
    /\ started = {}
    /\ finished = {}
    /\ env = [n \in AllNames |-> Unbound]
    /\ acc = {}
    /\ hist = {}
    /\ files = {}
    /\ handles = {}
    /\ backend = [mode |-> "default", cell |-> 0]
    /\ attempts = [x \in Sites(nb) |-> 0]
    /\ carried = {}
    /\ err = NoErr
    /\ obsList = <<>>
    /\ uses = {}
    /\ data = [n \in AllNames |-> Nil]
    /\ accd = Nil
    /\ builds = 0
    /\ runs = 0
    /\ stored \in BOOLEAN

(* a build of the book: the notebook is executed in a fresh kernel, or     *)
(* left as it is, as the execute setting says; the working directory is    *)
(* that of the build before                                                *)
Build ==
    /\ status \in {"unbuilt", "done", "skipped"}
    /\ builds < MaxBuilds
    /\ builds' = builds + 1
    /\ IF Executes(ExecuteNotebooks, stored)
       THEN /\ status' = "idle"
            /\ runs' = runs + 1
            /\ pc' = 1
            /\ ci' = 1
            /\ started' = {}
            /\ finished' = {}
            /\ env' = [n \in AllNames |-> Unbound]
            /\ backend' = [mode |-> "default", cell |-> 0]
            /\ attempts' = [x \in Sites(nb) |-> 0]
            /\ obsList' = <<>>
            /\ uses' = {}
            /\ data' = [n \in AllNames |-> Nil]
            /\ UNCHANGED <<nb, busy, acc, hist, files, handles, carried, err,
                           accd, stored>>
       ELSE /\ status' = "skipped"
            /\ UNCHANGED <<nb, pc, ci, busy, started, finished, env, acc, hist,
                           files, handles, backend, attempts, carried, err,
                           values, runs, stored>>

(* the kernel takes the next code cell of the document *)
StartCell ==
    /\ status = "idle"
    /\ pc <= Len(Prog)
    /\ status' = "running"
    /\ busy' = busy \cup {Prog[pc].cell}
    /\ started' = started \cup {Prog[pc].cell}
    /\ UNCHANGED <<nb, pc, ci, finished, env, acc, hist, files, handles,
                   backend, attempts, carried, err, values, book>>

(* the cell is left in progress when the next one is taken *)
FinishCellStillBusy ==
    /\ status = "running"
    /\ ci = 1
    /\ IF pc > Len(Stmts(nb)) THEN TRUE ELSE Stmts(nb)[pc].cell \notin busy
    /\ status' = IF pc > Len(Stmts(nb)) THEN "done" ELSE "idle"
    /\ UNCHANGED <<nb, pc, ci, busy, started, finished, env, acc, hist, files,
                   handles, backend, attempts, carried, err, values, book>>

(* the last statement of the cell in progress has completed *)
FinishCell ==
    /\ status = "running"
    /\ ci = 1
    /\ IF pc > Len(Prog) THEN TRUE ELSE Prog[pc].cell \notin busy
    /\ finished' = finished \cup busy
    /\ busy' = {}
    /\ status' = IF pc > Len(Prog) THEN "done" ELSE "idle"
    /\ UNCHANGED <<nb, pc, ci, started, env, acc, hist, files, handles,
                   backend, attempts, carried, err, values, book>>

(* the exception is swallowed and the run goes on with the next statement *)
AbortContinues(kind) ==
    /\ err' = [kind |-> kind, cell |-> Stmts(nb)[pc].cell,
               line |-> Stmts(nb)[pc].line, stmt |-> pc]
    /\ acc' = {}
    /\ pc' = pc + 1
    /\ ci' = 1
    /\ attempts' = [attempts EXCEPT ![<<pc, ci>>] = @ + 1]
    /\ UNCHANGED <<nb, status, busy, started, finished, env, hist, files,
                   handles, backend, carried, values, book>>

(* the failed call is made again *)
AbortRetries(kind) ==
    /\ attempts[<<pc, ci>>] < 2
    /\ err' = [kind |-> kind, cell |-> Stmts(nb)[pc].cell,
               line |-> Stmts(nb)[pc].line, stmt |-> pc]
    /\ attempts' = [attempts EXCEPT ![<<pc, ci>>] = @ + 1]
    /\ UNCHANGED <<nb, pc, ci, status, busy, started, finished, env, acc, hist,
                   files, handles, backend, carried, values, book>>

(* the exception leaves the cell: nothing catches it, the with block closes *)
(* its file, the statement binds nothing and the run ends                   *)
Abort(kind) ==
    /\ status' = "error"
    /\ err' = [kind |-> kind, cell |-> CurStmt.cell, line |-> CurStmt.line, stmt |-> pc]
    /\ busy' = {}
    /\ handles' = {}
    /\ acc' = {}
    /\ accd' = Nil
    /\ attempts' = [attempts EXCEPT ![<<pc, ci>>] = @ + 1]
    /\ UNCHANGED <<nb, pc, ci, started, finished, env, hist, files, backend,
                   carried, obsList, uses, data, book>>

Carried ==
    { [kind |-> "binding", id |-> n] : n \in { m \in CurOp.reads : env[m].cell # CurStmt.cell } }
    \cup (IF CurOp.kind \in FileKinds
          THEN { [kind |-> "file", id |-> f.name]
                 : f \in { g \in files : g.name \in OpIn /\ g.cell # CurStmt.cell } }
          ELSE {})
    \cup (IF CurOp.kind = "plot" /\ backend.cell \notin {0, CurStmt.cell}
          THEN { [kind |-> "backend", id |-> backend.mode] }
          ELSE {})

(* the pending call returns; the last call of a statement binds its targets *)
Step ==
    /\ Pending
    /\ NamesBound => (CurOp.kind \in FileKinds => OpIn \subseteq OnDisk)
    /\ IF ~NamesBound
       THEN Abort("NameError")
       ELSE LET s == CurStmt
                o == CurOp
                last == ci = Len(s.ops)
            IN  /\ attempts' = [attempts EXCEPT ![<<pc, ci>>] = @ + 1]
                /\ hist' = IF o.kind \in {"query", "select", "download"}
                           THEN hist \cup {[kind |-> o.kind, prods |-> OpOut,
                                            cell |-> s.cell, line |-> s.line]}
                           ELSE hist
                /\ files' = IF o.kind = "download"
                            THEN files \cup { [name |-> p, cell |-> s.cell] : p \in OpOut }
                            ELSE files
                /\ handles' = CASE o.kind = "open" -> handles \cup OpIn
                                [] o.kind = "close" -> handles \ OpIn
                                [] OTHER -> handles
                /\ backend' = IF o.kind = "magic"
                              THEN [mode |-> "inline", cell |-> s.cell]
                              ELSE backend
                /\ carried' = carried \cup Carried
                /\ env' = IF last
                          THEN [n \in AllNames |->
                                  IF n \in s.binds
                                  THEN [site |-> s.line, cell |-> s.cell, prods |-> OpOut]
                                  ELSE env[n]]
                          ELSE env
                /\ acc' = IF last THEN {} ELSE OpOut
                /\ obsList' \in IF o.fn = "Observations.query_criteria"
                                THEN ObsLists
                                ELSE {obsList}
                /\ uses' = uses \cup { [line |-> s.line, name |-> n, site |-> env[n].site]
                                       : n \in o.reads }
                /\ \E d \in DOuts :
                      /\ data' = IF last
                                 THEN [n \in AllNames |->
                                         IF n \in s.binds THEN d ELSE data[n]]
                                 ELSE data
                      /\ accd' = IF last THEN Nil ELSE d
                /\ pc' = IF last THEN pc + 1 ELSE pc
                /\ ci' = IF last THEN 1 ELSE ci + 1
                /\ UNCHANGED <<nb, status, busy, started, finished, err, book>>

(* the pending library call raises *)
Raise ==
    /\ Pending
    /\ NamesBound
    /\ CurOp.kind \in FailKinds
    /\ Abort("LibraryError")

Next == Build \/ StartCell \/ Step \/ Raise \/ FinishCell

Spec == Init /\ [][Next]_vars

(***************************************************************************)
(* Properties                                                              *)
(***************************************************************************)
OneCellAtATime == Cardinality(busy) <= 1

(* a cell is started, or in progress, only when every code cell above it  *)
(* in the document has started, respectively finished                      *)
DocumentOrder ==
    /\ \A c \in started : \A d \in CellsOf(nb) : d < c => d \in started
    /\ \A c \in busy : \A d \in CellsOf(nb) : d < c => d \in finished

Downloaded(p) == \E e \in hist : e.kind = "download" /\ p \in e.prods

(* C1, as stated: cells run one at a time in document order, and name      *)
(* bindings are the only state that one cell leaves for a later one.       *)
C1_OnlyBindingsCarried ==
    /\ OneCellAtATime
    /\ DocumentOrder
    /\ \A x \in carried : x.kind = "binding"

(* C1, amended: cells run one at a time in document order; what one cell   *)
(* leaves for a later one is the name bindings, the files a download stored*)
(* in the working directory and the plotting backend chosen by the         *)
(* matplotlib magic; no open file and no intermediate value outlives the   *)
(* cell.                                                                   *)
C1_CellsSequential ==
    /\ OneCellAtATime
    /\ DocumentOrder
    /\ status \in {"idle", "done"} => busy = {} /\ handles = {} /\ acc = {}
    /\ \A x \in carried :
          \/ x.kind = "binding"
          \/ x.kind = "file" /\ Downloaded(x.id)
          \/ x.kind = "backend" /\ x.id = "inline"

(* the file stored by the download cell has been read by a later cell *)
C1_Witness ==
    /\ status = "done"
    /\ [kind |-> "file", id |-> TargFile] \in carried
    /\ [kind |-> "binding", id |-> "filename"] \in carried

Failed == err.kind = "LibraryError"

LaterSites == { x \in DOMAIN attempts : x[1] > err.stmt \/ (x[1] = err.stmt /\ x[2] > ci) }

RunStopped ==
    /\ status = "error"
    /\ busy = {}
    /\ err.cell \in started \ finished
    /\ \A c \in started : c <= err.cell
    /\ \A x \in LaterSites : attempts[x] = 0

(* C2, as stated: a failing library call ends the run in its cell, no      *)
(* later cell executes, and no name the failing statement would have bound *)
(* is bound.                                                               *)
C2_FailureLeavesTargetsUnbound ==
    Failed => /\ RunStopped
              /\ \A n \in Prog[err.stmt].binds : env[n].site = 0

FailureState ==
    Failed => /\ RunStopped
              /\ \A n \in Prog[err.stmt].binds : env[n].site < err.line

(* C2, amended: a failing library call ends the run in its cell, nothing   *)
(* executes afterwards, and the failing statement binds nothing: a name it *)
(* would have bound is unbound or keeps the binding of an earlier          *)
(* statement.                                                              *)
C2_FailureStopsRun == []FailureState /\ [][Failed => UNCHANGED vars]_vars

(* the second to_periodogram of the transit notebook has failed: bls is    *)
(* still bound to the first periodogram                                    *)
C2_Witness ==
    /\ Failed
    /\ nb = "transit"
    /\ err.line = 356
    /\ env["bls"].site = 181
    /\ env["planet_c_period"].site = 0

(* C3: within one run every remote query and every download is attempted   *)
(* at most once, whether it returns or raises.                             *)
C3_NoRetry ==
    \A x \in DOMAIN attempts :
        Prog[x[1]].ops[x[2]].kind \in {"query", "download"} => attempts[x] <= 1

(* a download has failed after its one attempt, the query before it having *)
(* been made once                                                          *)
C3_Witness ==
    /\ Failed
    /\ Prog[err.stmt].ops[ci].kind = "download"
    /\ attempts[<<err.stmt, ci>>] = 1
    /\ \E x \in DOMAIN attempts :
          Prog[x[1]].ops[x[2]].kind = "query" /\ attempts[x] = 1

(* C4: every name a call looks up has been bound by an import or an        *)
(* assignment of the same or an earlier cell, so a run in which no library *)
(* call raises never raises.                                               *)
C4_NamesBoundBeforeUse ==
    /\ err.kind # "NameError"
    /\ Pending => NamesBound
    /\ status = "error" => Failed

(* the transit notebook has run to its end with numpy imported in its      *)
(* fifth code cell                                                         *)
C4_Witness ==
    /\ nb = "transit"
    /\ status = "done"
    /\ finished = CellsOf("transit")
    /\ env["np"].site = 177
    /\ env["period"].site = 355

(* a call that uses the data of a product is about to be made, and the    *)
(* file it names, if it names one, is there to be read                     *)
UsesData ==
    /\ Pending
    /\ NamesBound
    /\ CurOp.kind \in DataKinds
    /\ CurOp.kind \in FileKinds => OpIn \subseteq OnDisk

Downloads == Pending /\ NamesBound /\ CurOp.kind = "download"

DownloadAfterQuery ==
    Downloads =>
        /\ \A p \in OpIn :
              \E e \in hist : e.kind \in {"query", "select"} /\ p \in e.prods

C12_FilesClosed ==
    /\ status # "running" => handles = {}
    /\ handles # {} =>
          /\ Pending
          /\ CurOp.reads = {"hdulist"}
          /\ env["hdulist"].cell = CurStmt.cell
    /\ (Pending /\ NamesBound /\ CurOp.kind = "open") => handles = {}

(* hdulist[1].data, the body of the second with block, has raised while    *)
(* the file was open; the first with block had run to its end              *)
C12_Witness ==
    /\ nb = "tpfimg"
    /\ Failed
    /\ err.line = 311
    /\ 291 \in finished
    /\ \E i \in DOMAIN Prog : Prog[i].line = 310 /\ attempts[<<i, 1>>] = 1
    /\ env["hdulist"].site = 310
    /\ handles = {}

(* C18, as stated: whatever list of observations the query returns, in     *)
(* whatever order, the filter step leaves the data file in yourProd, the   *)
(* download cell stores it, and the path bound to filename is that of the  *)
(* stored file.                                                            *)
C18_DataFileFound ==
    nb = "tpfimg" =>
        /\ env["yourProd"].site # 0 => TargFile \in env["yourProd"].prods
        /\ 208 \in finished => TargFile \in OnDisk
        /\ (208 \in finished /\ env["filename"].site # 0) =>
               env["filename"].prods \subseteq OnDisk

(* C19, as stated: every build of the book executes the notebook again,    *)
(* whether or not the notebook file has stored outputs.                    *)
C19_ExecutedOnEveryBuild == runs = builds

Cads(v) == { v.cad[i] : i \in DOMAIN v.cad }

(* lc[planet_b_mask] has been evaluated and is about to be plotted *)
InTransitShown == nb = "transit" /\ Pending /\ CurStmt.line = 287 /\ ci = 2

(* C13: masked_lc = lc[~planet_b_mask] and lc[planet_b_mask] have no       *)
(* cadence in common, hold every cadence of lc between them, each once,    *)
(* and their lengths add up to the length of lc.                           *)
C13_MaskPartitionsLc ==
    InTransitShown =>
        LET out == data["masked_lc"]
            in == accd
            all == data["lc"]
        IN  /\ Cads(out) \cap Cads(in) = {}
            /\ Cads(out) \cup Cads(in) = Cads(all)
            /\ Cardinality(Cads(out)) = Len(out.cad)
            /\ Cardinality(Cads(in)) = Len(in.cad)
            /\ Len(out.cad) + Len(in.cad) = Len(all.cad)

(* lc has lost a cadence to remove_outliers and the mask puts one of its   *)
(* cadences in transit and one out of transit                              *)
C13_Witness ==
    /\ InTransitShown
    /\ data["lc"].cad = <<1, 3>>
    /\ data["planet_b_mask"].bits = <<FALSE, TRUE>>
    /\ data["masked_lc"].cad = <<1>>
    /\ accd.cad = <<3>>

PlanetB == {"planet_b_period", "planet_b_t0", "planet_b_dur"}

PlanetC == {"planet_c_period", "planet_c_t0", "planet_c_dur"}

(* the cadences of lc at which planet_b_mask is False *)
OutOfTransit ==
    { data["lc"].cad[i] :
        i \in { j \in DOMAIN data["lc"].cad :
                  j \in DOMAIN data["planet_b_mask"].bits
                  /\ ~data["planet_b_mask"].bits[j] } }

(* C14: the second periodogram and the planet c parameters read off it are *)
(* computed from the cadences of lc at which planet_b_mask is False and    *)
(* from no other; no statement that looks up a planet c parameter, and not *)
(* the second to_periodogram, looks up lc: the planet c fold is of         *)
(* masked_lc.                                                              *)
C14_SecondSearchOnMaskedLc ==
    nb = "transit" =>
        /\ env["bls"].site = 356 =>
              /\ Cads(data["bls"]) = OutOfTransit
              /\ [line |-> 356, name |-> "masked_lc", site |-> 285] \in uses
        /\ \A n \in PlanetC :
              env[n].site # 0 =>
                  /\ Cads(data[n]) = OutOfTransit
                  /\ [line |-> env[n].site, name |-> "bls", site |-> 356] \in uses
        /\ \A u \in uses : \A w \in uses :
              (u.line = w.line /\ (u.name \in PlanetC \/ u.line = 356)) =>
                  w.name # "lc"
        /\ \A u \in uses :
              (u.name \in PlanetC /\ u.line \in {398, 399}) =>
                  [line |-> u.line, name |-> "masked_lc", site |-> 285] \in uses

(* the notebook has run to its end with one of two cadences masked out *)
C14_Witness ==
    /\ nb = "transit"
    /\ status = "done"
    /\ data["lc"].cad = <<1, 2>>
    /\ data["planet_b_mask"].bits = <<TRUE, FALSE>>
    /\ data["planet_c_period"].cad = <<2>>
    /\ [line |-> 398, name |-> "masked_lc", site |-> 285] \in uses
    /\ [line |-> 399, name |-> "planet_c_period", site |-> 375] \in uses

(* the bindings of bls looked up by the statement at a line *)
SearchOf(line) == { u.site : u \in { v \in uses : v.line = line /\ v.name = "bls" } }

(* C16: bls is bound at line 181 to the periodogram of lc and at line 356  *)
(* to that of masked_lc; planet_b_mask and planet_b_model are computed     *)
(* from the first, planet_c_model from the second, and a statement that    *)
(* looks up bls together with parameters of a planet looks up the          *)
(* periodogram those parameters were read off.                             *)
C16_PeriodogramsNotMixed ==
    nb = "transit" =>
        /\ env["bls"].site \in {0, 181, 356}
        /\ env["bls"].site # 0 =>
              [line |-> 181, name |-> "lc", site |-> 128] \in uses
        /\ env["bls"].site = 356 =>
              [line |-> 356, name |-> "masked_lc", site |-> 285] \in uses
        /\ env["planet_b_mask"].site # 0 => SearchOf(265) = {181}
        /\ env["planet_b_model"].site # 0 =>
              SearchOf(env["planet_b_model"].site) = {181}
        /\ env["planet_c_model"].site # 0 =>
              SearchOf(env["planet_c_model"].site) = {356}
        /\ \A u \in uses : \A w \in uses :
              (u.line = w.line /\ u.name = "bls" /\ w.name \in PlanetB \cup PlanetC) =>
                  /\ w.name \in PlanetB => u.site = 181
                  /\ w.name \in PlanetC => u.site = 356
                  /\ SearchOf(w.site) = {u.site}

(* the notebook has run to its end: both models have been computed *)
C16_Witness ==
    /\ nb = "transit"
    /\ status = "done"
    /\ env["bls"].site = 356
    /\ [line |-> 265, name |-> "bls", site |-> 181] \in uses
    /\ [line |-> 306, name |-> "bls", site |-> 181] \in uses
    /\ [line |-> 421, name |-> "bls", site |-> 356] \in uses
    /\ [line |-> 421, name |-> "planet_c_dur", site |-> 377] \in uses

(* calls that change the object they are made on *)
Mutates(o) == o.kind = "setitem" \/ o.fn = "set_xlim"

LcKept ==
    nb = "transit" =>
        /\ env["lc"].site \in {0, 128}
        /\ \A u \in uses : u.name = "lc" => u.site = 128
        /\ (Pending /\ CurStmt.line = 432) =>
               data["lc"].cad = data["planet_b_model"].cad

MutatesOnlyMasksAndAxes ==
    /\ (Pending /\ NamesBound /\ Mutates(CurOp)) =>
           CurOp.reads \subseteq {"custom_mask", "cut_mask", "ax"}
    /\ LcKept

====
